---------------------------- MODULE Spec2Model ----------------------------
(***************************************************************************)
(* Orthomosaic pipeline of Trabajo-Final: radiometric normalisation        *)
(* (src/src/Normalizacion.py) and vegetation indices (src/src/Indices.py). *)
(*                                                                         *)
(* Pixels are IEEE 754 floating-point numbers, binary32 (numpy's float32)  *)
(* or binary64 (float64, Python's float).  A pixel is modelled as a        *)
(* record [kind, sign, m, e]:                                              *)
(*    kind = "fin"   the real number sign * m * 2^e, with the sign -1 or   *)
(*                   1, the odd natural number m and the integer e; zero   *)
(*                   has sign 0, m = <<>> and e = 0.  The form is          *)
(*                   canonical: equal numbers are equal records.  m is     *)
(*                   written in base 2^15, the least significant digit     *)
(*                   first: <<5>> is 5 and <<1, 2>> is 1 + 2 * 32768;      *)
(*    kind = "nan"   not-a-number (sign 0, m = <<>>, e = 0);               *)
(*    kind = "inf"   plus (sign 1) or minus (sign -1) infinity.            *)
(* Every operation rounds its exact result to the dtype it is computed     *)
(* in: to the nearest value of 24 (float32) or 53 (float64) significant    *)
(* binary digits, ties to even, with subnormal values, underflow to zero   *)
(* and overflow to an infinity, and follows IEEE 754 on nan and the        *)
(* infinities.  Negative zero is not told from zero.                       *)
(*                                                                         *)
(* A 2-D array is a sequence of rows, a row a sequence of pixels; a 3-D    *)
(* array is a sequence of 2-D bands.  Python's None is the empty sequence  *)
(* (no array of the model is empty).  The sequences do not carry numpy's   *)
(* dtype: an operation is told the dtype of its operands.                  *)
(***************************************************************************)
EXTENDS Integers, Sequences, FiniteSets, TLC

---------------------------------------------------------------------------
(* Natural numbers of any size                                             *)

\* A natural number is the sequence of its digits in base 2^15, the least
\* significant first and the last one not zero; zero is the empty sequence.
\* Sums and products of two digits stay below 2^31.
LimbBits == 15
Base == 2 ^ LimbBits

Max(a, b) == IF a > b THEN a ELSE b
Min(a, b) == IF a < b THEN a ELSE b
AbsInt(n) == IF n < 0 THEN -n ELSE n

MaxOfSet(S) == CHOOSE i \in S : \A j \in S : j <= i
MinOfSet(S) == CHOOSE i \in S : \A j \in S : i <= j

Limb(a, i) == IF 1 <= i /\ i <= Len(a) THEN a[i] ELSE 0

\* a without the zeros that follow its last digit.
NTrimTo(a, nz) == IF nz = {} THEN <<>> ELSE SubSeq(a, 1, MaxOfSet(nz))
NTrim(a) == IF a = <<>> THEN <<>> ELSE NTrimTo(a, {i \in 1..Len(a) : a[i] # 0})

\* The natural number n, 0 <= n < 2^31, and back.
NFromInt(n) == NTrim(<<n % Base, (n \div Base) % Base, n \div (Base * Base)>>)
NToInt(a) == Limb(a, 1) + Base * Limb(a, 2) + Base * Base * Limb(a, 3)

\* -1, 0, 1 as a < b, a = b, a > b.
NCmpDigit(a, b, i) == IF a[i] < b[i] THEN -1 ELSE 1
NCmpAt(a, b, diff) == IF diff = {} THEN 0 ELSE NCmpDigit(a, b, MaxOfSet(diff))
NCmp(a, b) ==
    IF Len(a) # Len(b) THEN (IF Len(a) < Len(b) THEN -1 ELSE 1)
    ELSE NCmpAt(a, b, {i \in 1..Len(a) : a[i] # b[i]})

\* a + b: digit i takes a carry when an earlier digit sum overflows and
\* every digit sum in between is Base - 1.
NCarry(sums, i) ==
    \E j \in 1..(i - 1) :
        /\ sums[j] >= Base
        /\ \A m \in (j + 1)..(i - 1) : sums[m] = Base - 1
NAddSums(sums) ==
    NTrim([i \in 1..Len(sums) |->
             (sums[i] + (IF NCarry(sums, i) THEN 1 ELSE 0)) % Base])
NAdd(a, b) ==
    IF a = <<>> THEN b
    ELSE IF b = <<>> THEN a
    ELSE NAddSums([i \in 1..(Max(Len(a), Len(b)) + 1) |-> Limb(a, i) + Limb(b, i)])

\* a - b, for a >= b: digit i lends when an earlier digit of a is below
\* that of b and the digits in between are equal.
NBorrow(a, b, i) ==
    \E j \in 1..(i - 1) :
        /\ a[j] < Limb(b, j)
        /\ \A m \in (j + 1)..(i - 1) : a[m] = Limb(b, m)
NSub(a, b) ==
    IF a = <<>> \/ b = <<>> THEN a
    ELSE NTrim([i \in 1..Len(a) |->
                  ((a[i] - Limb(b, i)) - (IF NBorrow(a, b, i) THEN 1 ELSE 0) + Base)
                  % Base])

\* a * k, for 0 <= k < Base.
NMulSmall(a, k) ==
    IF a = <<>> \/ k = 0 THEN <<>>
    ELSE NAdd([i \in 1..Len(a) |-> (a[i] * k) % Base],
              [i \in 1..(Len(a) + 1) |-> (Limb(a, i - 1) * k) \div Base])

\* What the product a[i] * b[j] puts on digit k of a * b: its low half
\* when i + j = k + 1, its high half when i + j = k.
NTerm(a, b, k, i) ==
    ((Limb(a, i) * Limb(b, k - i + 1)) % Base)
    + ((Limb(a, i) * Limb(b, k - i)) \div Base)

\* The sum of the terms i, i + 1, ... of digit k, eight at a time.
RECURSIVE NColumn(_, _, _, _)
NColumn(a, b, k, i) ==
    IF i > Min(Len(a), k) THEN 0
    ELSE NTerm(a, b, k, i) + NTerm(a, b, k, i + 1) + NTerm(a, b, k, i + 2)
         + NTerm(a, b, k, i + 3) + NTerm(a, b, k, i + 4) + NTerm(a, b, k, i + 5)
         + NTerm(a, b, k, i + 6) + NTerm(a, b, k, i + 7)
         + NColumn(a, b, k, i + 8)

\* a * b, for numbers of fewer than 2^15 digits.
NMulColumns(col) ==
    NAdd([k \in 1..Len(col) |-> col[k] % Base],
         [k \in 1..(Len(col) + 1) |-> IF k = 1 THEN 0 ELSE col[k - 1] \div Base])
NMul(a, b) ==
    IF a = <<>> \/ b = <<>> THEN <<>>
    ELSE NMulColumns([k \in 1..(Len(a) + Len(b)) |->
                        NColumn(a, b, k, Max(1, k - Len(b)))])

\* a * 2^n and a \div 2^n, n >= 0.
\* ls whole digits and s binary digits, s < LimbBits.
NShlBy(a, ls, s) ==
    NTrim([i \in 1..(Len(a) + ls + 1) |->
             IF i <= ls THEN 0
             ELSE ((Limb(a, i - ls) * 2 ^ s) % Base)
                  + (Limb(a, i - ls - 1) \div (2 ^ (LimbBits - s)))])
NShl(a, n) ==
    IF a = <<>> \/ n = 0 THEN a ELSE NShlBy(a, n \div LimbBits, n % LimbBits)

NShrBy(a, ls, s) ==
    IF ls >= Len(a) THEN <<>>
    ELSE NTrim([i \in 1..(Len(a) - ls) |->
                  (Limb(a, i + ls) \div (2 ^ s))
                  + (Limb(a, i + ls + 1) % (2 ^ s)) * (2 ^ (LimbBits - s))])
NShr(a, n) ==
    IF a = <<>> \/ n = 0 THEN a ELSE NShrBy(a, n \div LimbBits, n % LimbBits)

\* The number of binary digits of a.
NBitLen(a) ==
    IF a = <<>> THEN 0
    ELSE LimbBits * (Len(a) - 1)
         + (CHOOSE k \in 1..LimbBits : a[Len(a)] < 2 ^ k /\ a[Len(a)] >= 2 ^ (k - 1))

\* The number of zeros that end the binary digits of a # 0.
NTzAt(a, f) ==
    LimbBits * (f - 1)
    + (CHOOSE k \in 0..(LimbBits - 1) :
          (a[f] % (2 ^ k)) = 0 /\ (a[f] % (2 ^ (k + 1))) # 0)
NTz(a) == NTzAt(a, MinOfSet({i \in 1..Len(a) : a[i] # 0}))

\* One digit of the long division: the largest q < Base with q * d <= r,
\* for r < Base * d and a divisor d whose leading digit is at least Base / 2,
\* found from the leading digits and corrected downwards.
RECURSIVE NFitDigit(_, _, _)
NFitDigit(r, d, q) ==
    IF NCmp(NMulSmall(d, q), r) > 0 THEN NFitDigit(r, d, q - 1) ELSE q

NQuotDigit(r, d) ==
    IF NCmp(r, d) < 0 THEN 0
    ELSE NFitDigit(r, d, Min((Limb(r, Len(d) + 1) * Base + r[Len(d)]) \div d[Len(d)],
                             Base - 1))

\* Long division of the digits a[i..] by d, from the most significant
\* digit: the quotient and the remainder.  The leading Len(d) - 1 digits
\* are below d.
NDivPut(r, d, q, quot) ==
    IF q = 0 THEN [quot |-> <<0>> \o quot, rem |-> r]
    ELSE [quot |-> <<q>> \o quot, rem |-> NSub(r, NMulSmall(d, q))]
NDivStep(r, d, quot) ==
    IF r = <<>> THEN [quot |-> <<0>> \o quot, rem |-> <<>>]
    ELSE NDivPut(r, d, NQuotDigit(r, d), quot)
NDivDigit(digit, d, up) ==
    IF up.rem = <<>> /\ digit = 0 THEN [quot |-> <<0>> \o up.quot, rem |-> <<>>]
    ELSE NDivStep(NTrim(<<digit>> \o up.rem), d, up.quot)
RECURSIVE NDivAt(_, _, _)
NDivAt(a, d, i) ==
    IF i > Len(a) - (Len(d) - 1)
    THEN [quot |-> <<>>, rem |-> NTrim(SubSeq(a, Max(i, 1), Len(a)))]
    ELSE NDivDigit(a[i], d, NDivAt(a, d, i + 1))

\* a \div d and whether a % d is not zero, for d # 0: the divisor is
\* shifted by s to a leading digit of at least Base / 2.
NDivResult(r) == [quot |-> NTrim(r.quot), inexact |-> r.rem # <<>>]
NDivShifted(a, d, s) == NDivResult(NDivAt(NShl(a, s), NShl(d, s), 1))
NDivMod(a, d) ==
    IF a = <<>> THEN [quot |-> <<>>, inexact |-> FALSE]
    ELSE NDivShifted(a, d, LimbBits - NBitLen(<<Limb(d, Len(d))>>))

\* 5^k, by squaring.
NPow5From(k, h) ==
    IF h = <<>> THEN <<>>
    ELSE IF k % 2 = 1 THEN NMulSmall(NMul(h, h), 5)
    ELSE NMul(h, h)
RECURSIVE NPow5(_)
NPow5(k) == IF k = 0 THEN <<1>> ELSE NPow5From(k, NPow5(k \div 2))

---------------------------------------------------------------------------
(* Floating-point values                                                   *)

NaN == [kind |-> "nan", sign |-> 0, m |-> <<>>, e |-> 0]
PInf == [kind |-> "inf", sign |-> 1, m |-> <<>>, e |-> 0]
NInf == [kind |-> "inf", sign |-> -1, m |-> <<>>, e |-> 0]
Zero == [kind |-> "fin", sign |-> 0, m |-> <<>>, e |-> 0]

IsNaN(x) == x.kind = "nan"
IsInf(x) == x.kind = "inf"
IsFin(x) == x.kind = "fin"

\* The sign of a value that is not nan: -1, 0 or 1.
Sgn(x) == x.sign

Inf(s) == IF s > 0 THEN PInf ELSE NInf

\* The canonical record of s * m * 2^e.
DyadicOdd(s, m, e, tz) == [kind |-> "fin", sign |-> s, m |-> NShr(m, tz), e |-> e + tz]
Dyadic(s, m, e) ==
    IF m = <<>> \/ s = 0 THEN Zero ELSE DyadicOdd(s, m, e, NTz(m))

\* The formats: binary digits of the significand, exponent of the last
\* digit of the smallest subnormal, exponent of the first digit of the
\* largest finite value.
Format(dtype) ==
    IF dtype = "float32" THEN [digits |-> 24, quantum |-> -149, top |-> 127]
    ELSE [digits |-> 53, quantum |-> -1074, top |-> 1023]

\* s * m * 2^e (plus, when sticky, a positive amount below 2^e) rounded to
\* the nearest value of the dtype, ties to the even significand: an
\* infinity beyond the largest finite value, zero or a subnormal near zero.
\* E is the exponent of the last digit the dtype keeps, q the digits of m
\* from E on, c the comparison of the digits cut with half a unit of E.
RoundPack(F, s, r, re) ==
    IF re + NBitLen(r) - 1 > F.top THEN Inf(s) ELSE Dyadic(s, r, re)
RoundUp(q, c, sticky) ==
    IF c > 0 \/ (c = 0 /\ (sticky \/ Limb(q, 1) % 2 = 1)) THEN NAdd(q, <<1>>) ELSE q
RoundCut(F, s, m, q, sh, E, sticky) ==
    RoundPack(F, s, RoundUp(q, NCmp(NSub(m, NShl(q, sh)), NShl(<<1>>, sh - 1)),
                            sticky), E)
RoundAt(F, s, m, e, E, sticky) ==
    IF E <= e THEN RoundPack(F, s, m, e)
    ELSE RoundCut(F, s, m, NShr(m, E - e), E - e, E, sticky)
Round(dtype, s, m, e, sticky) ==
    IF m = <<>> \/ s = 0 THEN Zero
    ELSE RoundAt(Format(dtype), s, m, e,
                 Max(e + NBitLen(m) - Format(dtype).digits, Format(dtype).quantum),
                 sticky)

\* The value x takes in an array of the given dtype (astype, or the result
\* of an operation of that dtype).
Float(dtype, x) ==
    IF ~IsFin(x) THEN x ELSE Round(dtype, x.sign, x.m, x.e, FALSE)

Float32(x) == Float("float32", x)
Float64(x) == Float("float64", x)

FNeg(x) == IF IsNaN(x) THEN NaN ELSE [x EXCEPT !.sign = -x.sign]

FAbs(x) == IF Sgn(x) < 0 THEN FNeg(x) ELSE x

\* -1, 0, 1 as a < b, a = b, a > b, for finite a, b > 0.
CmpAligned(a, b, e) == NCmp(NShl(a.m, a.e - e), NShl(b.m, b.e - e))
CmpLead(a, b, la, lb) ==
    IF la # lb THEN (IF la < lb THEN -1 ELSE 1)
    ELSE CmpAligned(a, b, Min(a.e, b.e))
CmpPos(a, b) == CmpLead(a, b, a.e + NBitLen(a.m), b.e + NBitLen(b.m))

\* -1, 0, 1 as a < b, a = b, a > b, for a, b not nan.
Cmp(a, b) ==
    IF Sgn(a) # Sgn(b) THEN (IF Sgn(a) < Sgn(b) THEN -1 ELSE 1)
    ELSE IF Sgn(a) = 0 THEN 0
    ELSE IF IsInf(a) /\ IsInf(b) THEN 0
    ELSE IF IsInf(a) THEN Sgn(a)
    ELSE IF IsInf(b) THEN -Sgn(a)
    ELSE Sgn(a) * CmpPos(FAbs(a), FAbs(b))

\* IEEE comparisons: every comparison with nan is false.
FLess(a, b) == ~IsNaN(a) /\ ~IsNaN(b) /\ Cmp(a, b) < 0
FLeq(a, b) == ~IsNaN(a) /\ ~IsNaN(b) /\ Cmp(a, b) <= 0
FGreater(a, b) == FLess(b, a)
FEq(a, b) == ~IsNaN(a) /\ ~IsNaN(b) /\ Cmp(a, b) = 0

\* The exact sum and product of two values (IEEE on nan and infinities).
XAddOpposite(sa, ma, sb, mb, e, c) ==
    IF c = 0 THEN Zero
    ELSE IF c > 0 THEN Dyadic(sa, NSub(ma, mb), e)
    ELSE Dyadic(sb, NSub(mb, ma), e)
XAddAligned(sa, ma, sb, mb, e) ==
    IF sa = sb THEN Dyadic(sa, NAdd(ma, mb), e)
    ELSE XAddOpposite(sa, ma, sb, mb, e, NCmp(ma, mb))
XAddAt(a, b, e) ==
    XAddAligned(a.sign, NShl(a.m, a.e - e), b.sign, NShl(b.m, b.e - e), e)
XAdd(a, b) ==
    IF IsNaN(a) \/ IsNaN(b) THEN NaN
    ELSE IF IsInf(a) /\ IsInf(b) THEN (IF a = b THEN a ELSE NaN)
    ELSE IF IsInf(a) THEN a
    ELSE IF IsInf(b) THEN b
    ELSE IF Sgn(a) = 0 THEN b
    ELSE IF Sgn(b) = 0 THEN a
    ELSE XAddAt(a, b, Min(a.e, b.e))

XSub(a, b) == XAdd(a, FNeg(b))

XMul(a, b) ==
    IF IsNaN(a) \/ IsNaN(b) THEN NaN
    ELSE IF IsInf(a) \/ IsInf(b)
         THEN (IF Sgn(a) * Sgn(b) = 0 THEN NaN ELSE Inf(Sgn(a) * Sgn(b)))
    ELSE Dyadic(Sgn(a) * Sgn(b), NMul(a.m, b.m), a.e + b.e)

\* The quotient of two natural numbers n * 2^en and d * 2^ed (d # 0), with
\* the sign s, rounded to the dtype: the quotient is taken to two digits
\* more than the significand holds, the rest of the division is sticky.  A
\* division by d = 1 is exact.
RoundQuot(dtype, s, r, e, lost) ==
    IF r.quot = <<>> THEN Zero ELSE Round(dtype, s, r.quot, e, r.inexact \/ lost)
RoundDivOf(dtype, s, a, d, e, lost) ==
    IF a = <<>> THEN Zero ELSE RoundQuot(dtype, s, NDivMod(a, d), e, lost)
RoundDivBy(dtype, s, n, en, d, ed, k) ==
    RoundDivOf(dtype, s, IF k >= 0 THEN NShl(n, k) ELSE NShr(n, -k), d,
               en - ed - k, NTz(n) < -k)
RoundDiv(dtype, s, n, en, d, ed) ==
    IF n = <<>> THEN Zero
    ELSE IF d = <<1>> THEN Round(dtype, s, n, en - ed, FALSE)
    ELSE RoundDivBy(dtype, s, n, en, d, ed,
                    Format(dtype).digits + 2 + NBitLen(d) - NBitLen(n))

\* The operations of an array of the given dtype on two of its values.
FAdd(dtype, a, b) == Float(dtype, XAdd(a, b))
FSub(dtype, a, b) == Float(dtype, XSub(a, b))
FMul(dtype, a, b) == Float(dtype, XMul(a, b))
FDiv(dtype, a, b) ==
    IF IsNaN(a) \/ IsNaN(b) THEN NaN
    ELSE IF IsInf(a) /\ IsInf(b) THEN NaN
    ELSE IF IsInf(a) THEN (IF Sgn(b) >= 0 THEN a ELSE FNeg(a))
    ELSE IF IsInf(b) THEN Zero
    ELSE IF Sgn(b) = 0 THEN (IF Sgn(a) = 0 THEN NaN ELSE Inf(Sgn(a)))
    ELSE IF Sgn(a) = 0 THEN Zero
    ELSE RoundDiv(dtype, Sgn(a) * Sgn(b), a.m, a.e, b.m, b.e)

\* The Python float (n / d) * 10^e of a decimal literal, d # 0: the double
\* nearest to it.
Mk(n, d, e) ==
    IF n = 0 THEN Zero
    ELSE RoundDiv("float64", IF (n < 0) = (d < 0) THEN 1 ELSE -1,
                  NMul(NFromInt(AbsInt(n)), NPow5(Max(e, 0))), e,
                  NMul(NFromInt(AbsInt(d)), NPow5(Max(-e, 0))), 0)

\* The largest integer not above a finite x of magnitude below 2^31.
FloorOf(x, down) ==
    IF Sgn(x) > 0 THEN down ELSE IF x.e >= 0 THEN -down ELSE -down - 1
Floor(x) ==
    IF Sgn(x) = 0 THEN 0
    ELSE FloorOf(x, NToInt(IF x.e >= 0 THEN NShl(x.m, x.e) ELSE NShr(x.m, -x.e)))

\* The float of an integer below 2^31 in magnitude.
FromInt(n) == Dyadic(IF n < 0 THEN -1 ELSE 1, NFromInt(AbsInt(n)), 0)

One == FromInt(1)
MinusOne == FromInt(-1)
Two == FromInt(2)
Half == Mk(1, 2, 0)

\* np.clip on one pixel: nan stays nan.
Clip(x, lo, hi) ==
    IF IsNaN(x) THEN NaN
    ELSE IF FLess(x, lo) THEN lo
    ELSE IF FGreater(x, hi) THEN hi
    ELSE x

---------------------------------------------------------------------------
(* Arrays                                                                  *)

None == <<>>

\* The pixel values of a 2-D array, and the pairs of pixel values that two
\* arrays of one shape hold at one position.
Values(A) == UNION {{A[r][c] : c \in 1..Len(A[r])} : r \in 1..Len(A)}
ValuePairs(A, B) ==
    UNION {{[a |-> A[r][c], b |-> B[r][c]] : c \in 1..Len(A[r])} : r \in 1..Len(A)}

\* A sequence written out as the tuple of its elements (the same sequence).
Tuple(seq) == SubSeq(seq, 1, Len(seq))

\* F on every pixel of A, and on every pair of pixels of A and B.  F is
\* computed once for each value (each pair of values) the arrays hold.
Lookup1(A, table) ==
    Tuple([r \in 1..Len(A) |->
        Tuple([c \in 1..Len(A[r]) |->
            (CHOOSE t \in table : t.a = A[r][c]).value])])
Map1(F(_), A) ==
    IF A = <<>> THEN <<>>
    ELSE Lookup1(A, {[a |-> v, value |-> F(v)] : v \in Values(A)})

Lookup2(A, B, table) ==
    Tuple([r \in 1..Len(A) |->
        Tuple([c \in 1..Len(A[r]) |->
            (CHOOSE t \in table : t.a = A[r][c] /\ t.b = B[r][c]).value])])
Map2(F(_, _), A, B) ==
    IF A = <<>> \/ B = <<>> THEN <<>>
    ELSE Lookup2(A, B, {[a |-> v.a, b |-> v.b, value |-> F(v.a, v.b)] :
                           v \in ValuePairs(A, B)})

\* A.astype(dtype).
AsType(dtype, A) == LET F(x) == Float(dtype, x) IN Map1(F, A)

\* A + B, A - B, k * A, A + k, A / k on arrays of the given dtype.  A
\* scalar k (a Python float, or a numpy scalar next to an array) is
\* converted to the dtype of the array before the operation.
AAdd(dtype, A, B) == LET F(x, y) == FAdd(dtype, x, y) IN Map2(F, A, B)
ASub(dtype, A, B) == LET F(x, y) == FSub(dtype, x, y) IN Map2(F, A, B)
AScaleBy(dtype, scalar, A) == LET F(x) == FMul(dtype, scalar, x) IN Map1(F, A)
AScale(dtype, k, A) == AScaleBy(dtype, Float(dtype, k), A)
AShiftBy(dtype, A, scalar) == LET F(x) == FAdd(dtype, x, scalar) IN Map1(F, A)
AShift(dtype, A, k) == AShiftBy(dtype, A, Float(dtype, k))
ADivByScalar(dtype, A, scalar) == LET F(x) == FDiv(dtype, x, scalar) IN Map1(F, A)
ADivBy(dtype, A, k) == ADivByScalar(dtype, A, Float(dtype, k))
AClip(A, lo, hi) == LET F(x) == Clip(x, lo, hi) IN Map1(F, A)

\* The bands of a 3-D array, each converted to the dtype.
AsTypeBands(dtype, bands) ==
    Tuple([i \in 1..Len(bands) |-> AsType(dtype, bands[i])])

---------------------------------------------------------------------------
(* Bounds of the model                                                     *)

\* Rows and columns of the arrays given to the index calculator and to
\* _safe_divide.
Height == 1
Width == 2

---------------------------------------------------------------------------
(* Indices.py: VegetationIndices                                           *)

B_MS_RED == 0
B_MS_GREEN == 1
B_MS_NIR == 2
B_MS_RED_EDGE == 3
B_RGB_RED == 0
B_RGB_GREEN == 1
B_RGB_BLUE == 2

\* array[i, :, :] with Python's index i, counted from 0.
Band(array, i) == array[i + 1]

\* The denominator magnitude below which _safe_divide masks a pixel: the
\* Python float 1e-10.
Epsilon == Mk(1, 1, -10)

\* The pixel mask of _safe_divide (line 57) on a denominator pixel of the
\* given dtype; the comparison converts 1e-10 to that dtype.
DivMask(d, dtype) == FEq(d, Zero) \/ FLess(FAbs(d), Float(dtype, Epsilon))

\* _safe_divide masking exact zeros only, without the epsilon test.
SafeDivideZeroOnly(numerator, denominator, dtype) ==
    LET F(n, d) == IF FEq(d, Zero) THEN NaN ELSE FDiv(dtype, n, d)
    IN  Map2(F, AsType(dtype, numerator), AsType(dtype, denominator))

\* _safe_divide(numerator, denominator), both arrays of one shape and of the
\* given dtype: their pixels are read as values of that dtype (the branch
\* for a scalar numerator, which no caller takes, divides alike).  The
\* quotient is computed in the arrays' dtype and stored in a float64 array
\* of NaN.
SafeDivide(numerator, denominator, dtype) ==
    LET F(n, d) == IF DivMask(d, dtype) THEN NaN ELSE FDiv(dtype, n, d)
    IN  Map2(F, AsType(dtype, numerator), AsType(dtype, denominator))

\* What a method call yields: a value, None, or a raised exception.
RetValue(v) == [kind |-> "value", val |-> v, exc |-> ""]
RetNone == [kind |-> "None", val |-> <<>>, exc |-> ""]
Raise(e) == [kind |-> "raise", val |-> <<>>, exc |-> e]

\* The attributes __init__ binds from the four MS bands and the RGB array
\* (None when there is none).
Bind(ms, rgb, dtype) ==
    [ms_array |-> ms, rgb_array |-> rgb, dtype |-> dtype,
     red |-> Band(ms, B_MS_RED), green |-> Band(ms, B_MS_GREEN),
     nir |-> Band(ms, B_MS_NIR), red_edge |-> Band(ms, B_MS_RED_EDGE),
     attrs |-> IF rgb # None THEN {"rgb_red", "rgb_green", "rgb_blue"} ELSE {},
     rgb_red |-> IF rgb # None THEN Band(rgb, B_RGB_RED) ELSE None,
     rgb_green |-> IF rgb # None THEN Band(rgb, B_RGB_GREEN) ELSE None,
     rgb_blue |-> IF rgb # None THEN Band(rgb, B_RGB_BLUE) ELSE None]

\* ms_norm_array[:4] for an array of five bands, and ms_norm_array[1:].
FirstFour(bands) == IF Len(bands) = 5 THEN SubSeq(bands, 1, 4) ELSE bands
LastFour(bands) == IF Len(bands) = 5 THEN SubSeq(bands, 2, 5) ELSE bands

\* The bands of an array of the given dtype; None stays None.
Bands(dtype, array) == IF array # None THEN AsTypeBands(dtype, array) ELSE None

\* __init__ binding RED, GREEN, NIR, RED_EDGE one band too far (bands 1..4).
VegetationIndicesShifted(ms_norm_array, rgb_norm_array, dtype) ==
    Bind(LastFour(Bands(dtype, ms_norm_array)), Bands(dtype, rgb_norm_array), dtype)

\* __init__: the object's attributes.  Both arrays are of the given dtype:
\* their pixels are read as values of that dtype.  attrs holds the names of
\* the RGB band attributes that were bound; reading one that was not raises
\* AttributeError.
VegetationIndices(ms_norm_array, rgb_norm_array, dtype) ==
    Bind(FirstFour(Bands(dtype, ms_norm_array)), Bands(dtype, rgb_norm_array), dtype)

\* calculate_ndvi with the zero-fill division: a pixel whose denominator
\* is masked is 0, not nan.
calculate_ndvi_zero_fill(self) ==
    LET t == self.dtype
        F(n, d) == IF DivMask(d, t) THEN Zero ELSE FDiv(t, n, d)
    IN  RetValue(AClip(Map2(F, ASub(t, self.nir, self.red),
                               AAdd(t, self.nir, self.red)),
                       MinusOne, One))

calculate_ndvi(self) ==
    LET t == self.dtype
    IN  RetValue(AClip(SafeDivide(ASub(t, self.nir, self.red),
                                  AAdd(t, self.nir, self.red), t),
                       MinusOne, One))

calculate_ndre(self) ==
    LET t == self.dtype
    IN  RetValue(AClip(SafeDivide(ASub(t, self.nir, self.red_edge),
                                  AAdd(t, self.nir, self.red_edge), t),
                       MinusOne, One))

calculate_gndvi(self) ==
    LET t == self.dtype
    IN  RetValue(AClip(SafeDivide(ASub(t, self.nir, self.green),
                                  AAdd(t, self.nir, self.green), t),
                       MinusOne, One))

\* The default L of calculate_savi.
SaviL == Mk(5, 10, 0)

\* nir + red + L is computed in the arrays' dtype; (1 + L) is a Python
\* float and multiplies the float64 array _safe_divide returned.
calculate_savi(self, L) ==
    LET t == self.dtype
    IN  RetValue(AScale("float64", FAdd("float64", One, L),
                        SafeDivide(ASub(t, self.nir, self.red),
                                   AShift(t, AAdd(t, self.nir, self.red), L), t)))

calculate_vari(self) ==
    LET t == self.dtype
    IN  IF ~({"rgb_green", "rgb_red", "rgb_blue"} \subseteq self.attrs)
        THEN Raise("AttributeError")
        ELSE RetValue(SafeDivide(ASub(t, self.rgb_green, self.rgb_red),
                                 ASub(t, AAdd(t, self.rgb_green, self.rgb_red),
                                      self.rgb_blue), t))

calculate_exg(self) ==
    LET t == self.dtype
    IN  IF "rgb_blue" \notin self.attrs THEN Raise("AttributeError")
        ELSE IF self.rgb_blue = None THEN RetNone
        ELSE RetValue(ASub(t, ASub(t, AScale(t, Two, self.rgb_green),
                                   self.rgb_red),
                           self.rgb_blue))

\* The coefficients of the EVI formulas.
TwoPointFive == Mk(25, 10, 0)
TwoPointFour == Mk(24, 10, 0)
Six == FromInt(6)
SevenPointFive == Mk(75, 10, 0)

\* The three-band EVI: 2.5 * (NIR - RED) / (NIR + 6 RED - 7.5 BLUE + 1).
calculate_evi_blue(self) ==
    LET t == self.dtype
    IN  IF "rgb_blue" \notin self.attrs THEN Raise("AttributeError")
        ELSE IF self.rgb_blue = None THEN RetNone
        ELSE RetValue(AScale("float64", TwoPointFive,
                 SafeDivide(ASub(t, self.nir, self.red),
                            AShift(t, ASub(t, AAdd(t, self.nir,
                                                   AScale(t, Six, self.red)),
                                           AScale(t, SevenPointFive, self.rgb_blue)),
                                   One), t)))

\* nir + 2.4 * red + 1 is computed in the arrays' dtype; 2.5 multiplies the
\* float64 array _safe_divide returned.
calculate_evi_hybrid(self) ==
    LET t == self.dtype
    IN  IF "rgb_blue" \notin self.attrs THEN Raise("AttributeError")
        ELSE IF self.rgb_blue = None THEN RetNone
        ELSE RetValue(AScale("float64", TwoPointFive,
                 SafeDivide(ASub(t, self.nir, self.red),
                            AShift(t, AAdd(t, self.nir,
                                           AScale(t, TwoPointFour, self.red)),
                                   One), t)))

MsKeys == {"ndvi", "ndre", "savi", "gndvi"}
RgbKeys == {"vari", "exg", "evi"}

\* The entries of the dictionary for the given keys, and what the method
\* yields: the dictionary, or the exception a call raised.
MainEntries(self, keys) ==
    [k \in keys |->
        CASE k = "ndvi" -> calculate_ndvi(self)
          [] k = "ndre" -> calculate_ndre(self)
          [] k = "savi" -> calculate_savi(self, SaviL)
          [] k = "gndvi" -> calculate_gndvi(self)
          [] k = "vari" -> calculate_vari(self)
          [] k = "exg" -> calculate_exg(self)
          [] k = "evi" -> calculate_evi_hybrid(self)]
MainResult(d) ==
    IF \E k \in DOMAIN d : d[k].kind = "raise" THEN Raise("AttributeError")
    ELSE RetValue(d)

\* calculate_main_indices with the RGB indices added unconditionally.
calculate_main_indices_rgb_always(self) ==
    MainResult(MainEntries(self, MsKeys \cup RgbKeys))

\* calculate_main_indices: the dictionary, or the exception a method raised.
calculate_main_indices(self) ==
    MainResult(MainEntries(self, IF self.rgb_array # None THEN MsKeys \cup RgbKeys
                                 ELSE MsKeys))

---------------------------------------------------------------------------
(* Normalizacion.py: normalize_radiometric                                 *)

\* An image is a record: ndim is 3 (data is a sequence of bands), 2 (data
\* is one 2-D array), 1 (data is one row of pixels) or 0 (Python's None,
\* data empty).
Image3(bands) == [ndim |-> 3, data |-> bands]
Image2(array) == [ndim |-> 2, data |-> array]
Image1(row) == [ndim |-> 1, data |-> row]
NoneImage == [ndim |-> 0, data |-> <<>>]

\* The rows of a 2-D or 1-D image, and the image of the given ndim back.
Rows(image) == IF image.ndim = 2 THEN image.data ELSE <<image.data>>
FromRows(ndim, rows) == IF ndim = 2 THEN Image2(rows) ELSE Image1(Head(rows))

\* image.astype("float32") (line 82).
AsFloat32(image) ==
    IF image.ndim = 0 THEN NoneImage
    ELSE IF image.ndim = 3 THEN Image3(AsTypeBands("float32", image.data))
    ELSE FromRows(image.ndim, AsType("float32", Rows(image)))

\* The step of the sample band[::10, ::10].
Stride == 10

\* The thresholds of the three-way decision.
OnePointFive == Mk(15, 10, 0)

\* The indices 1, 1 + Stride, 1 + 2 Stride, ... up to n that [::10] keeps.
SampledIndices(n) == [j \in 1..((n - 1) \div Stride + 1) |-> 1 + (j - 1) * Stride]

\* A 2-D array flattened row by row.
RECURSIVE Flatten(_)
Flatten(A) == IF A = <<>> THEN <<>> ELSE Head(A) \o Flatten(Tail(A))

\* band[::10, ::10], flattened.
Pick(band, rows, cols) ==
    Flatten([i \in 1..Len(rows) |-> [j \in 1..Len(cols) |-> band[rows[i]][cols[j]]]])
Sample(band) == Pick(band, SampledIndices(Len(band)), SampledIndices(Len(Head(band))))

\* The pixels of a flat sequence that are not nan.
NotNaN(seq) == SelectSeq(seq, LAMBDA x : ~IsNaN(x))

\* The k-th smallest pixel (k = 1..Len(seq)) of a sequence without nan, by
\* partition around its first pixel p: less and notMore are the pixels
\* below p and not above p.
RECURSIVE Kth(_, _)
KthAround(seq, k, p, less, notMore) ==
    IF k <= Len(less) THEN Kth(less, k)
    ELSE IF k <= Len(notMore) THEN p
    ELSE Kth(SelectSeq(seq, LAMBDA x : FGreater(x, p)), k - Len(notMore))
KthFrom(seq, k, p) ==
    KthAround(seq, k, p, SelectSeq(seq, LAMBDA x : FLess(x, p)),
              SelectSeq(seq, LAMBDA x : FLeq(x, p)))
Kth(seq, k) == KthFrom(seq, k, Head(seq))

\* The largest pixel of a nonempty sequence without nan.
MaxOf(seq) == Kth(seq, Len(seq))

\* np.nanmax: the largest pixel that is not nan; nan (with a warning) when
\* every pixel is nan.
MaxOrNaN(seq) == IF seq = <<>> THEN NaN ELSE MaxOf(seq)
NanMax(seq) == MaxOrNaN(NotNaN(seq))

\* The releases of numpy: np.nanpercentile computes the position and the
\* interpolation in float64 up to numpy 1.26 and, for a float32 array, in
\* float32 from numpy 2.0 on.
NumpyVersions == {"1.x", "2.x"}

PercentileType(numpy) == IF numpy = "1.x" THEN "float64" ELSE "float32"

\* The percentage 99.9 and the 100 that np.nanpercentile divides it by.
Percentage == Mk(999, 10, 0)
Hundred == FromInt(100)

\* The quantile 99.9 / 100 as float32 and as float64 arithmetic give it.
Quantile32 == FDiv("float32", Float("float32", Percentage), Float("float32", Hundred))
Quantile64 == FDiv("float64", Percentage, Hundred)

\* np.nanpercentile(seq, 99.9) of float32 pixels under the given numpy.
\* With the N pixels s that are not nan in ascending order (indices from
\* 0), the quantile q = 99.9 / 100 has the virtual index (N - 1) q; previous
\* and next are the pixels at its floor and one above (both the last pixel,
\* with the previous index -1, when the virtual index is not below N - 1, as
\* for N = 1), gamma is the distance of the virtual index from the previous
\* index, diff_b_a is next - previous in float32, and the result is numpy's
\* _lerp: previous + diff_b_a gamma for gamma < 0.5, next - diff_b_a
\* (1 - gamma) otherwise.  q, the virtual index, gamma and the interpolation
\* are of the type t: float64 in numpy 1.x, with a float64 result, and
\* float32 in numpy 2.x.  The result is nan when no pixel is left.
Lerp(t, previous, next, gamma, diff_b_a) ==
    IF FLeq(Half, gamma) THEN FSub(t, next, FMul(t, diff_b_a, FSub(t, One, gamma)))
    ELSE FAdd(t, previous, FMul(t, diff_b_a, gamma))
Interpolate(t, previous, next, gamma) ==
    Lerp(t, previous, next, gamma, FSub("float32", next, previous))
AtIndexes(t, s, virtual_index, previous_index, above) ==
    Interpolate(t, Kth(s, IF above THEN Len(s) ELSE previous_index + 1),
                Kth(s, IF above THEN Len(s) ELSE previous_index + 2),
                FSub(t, virtual_index, FromInt(previous_index)))
AtVirtualIndex(t, s, virtual_index, above) ==
    AtIndexes(t, s, virtual_index, IF above THEN -1 ELSE Floor(virtual_index), above)
Quantile(t, s, virtual_index) ==
    IF FLeq(FromInt(Len(s) - 1), virtual_index)
    THEN AtVirtualIndex(t, s, virtual_index, TRUE)
    ELSE AtVirtualIndex(t, s, virtual_index, FALSE)
PercentileOf(t, s) ==
    IF s = <<>> THEN NaN
    ELSE Quantile(t, s, FMul(t, FromInt(Len(s) - 1),
                             IF t = "float32" THEN Quantile32 ELSE Quantile64))
NanPercentile(seq, numpy) == PercentileOf(PercentileType(numpy), NotNaN(seq))

\* np.zeros_like: the rows of normalized that no branch assigns.
Zeros(band) == LET F(x) == Zero IN Map1(F, band)

\* The 3-D loop body without the already-normalised branch: every band
\* with a positive sampled maximum is divided by it.
DivideByMax(band, current_max) ==
    IF FGreater(current_max, Zero) THEN ADivBy("float32", band, current_max)
    ELSE AClip(band, Zero, One)
ScaleBandAlways(band, numpy) == DivideByMax(band, NanMax(Sample(band)))

\* The 3-D loop body (lines 90-113): normalized[i] for one float32 band,
\* with its sample.  A band no branch assigns stays the zeros of
\* np.zeros_like.  band / max_val is a float32 division: max_val is
\* converted to float32.
DivideIfPositive(band, divisor) ==
    IF FGreater(divisor, Zero) THEN ADivBy("float32", band, divisor) ELSE Zeros(band)
ScaleBandBy(band, sample, current_max, numpy) ==
    IF FLeq(current_max, One) THEN AClip(band, Zero, One)
    ELSE DivideIfPositive(band, IF FGreater(current_max, OnePointFive)
                                THEN NanPercentile(sample, numpy)
                                ELSE current_max)
ScaleBandOn(band, sample, numpy) == ScaleBandBy(band, sample, NanMax(sample), numpy)
ScaleBand(band, numpy) == ScaleBandOn(band, Sample(band), numpy)

\* The branch of the arrays that are not 3-D (lines 119-135): arr before the
\* final clip.  rows is the float32 array, as one row when ndim is 1; the
\* sample is arr[::10, ::10], or all of arr when ndim is 1.
DivideOrKeep(rows, max_val) ==
    IF FGreater(max_val, Zero) THEN ADivBy("float32", rows, max_val) ELSE rows
ScaleArrayBy(rows, sample, current_max, numpy) ==
    IF FGreater(current_max, OnePointFive)
    THEN DivideOrKeep(rows, NanPercentile(sample, numpy))
    ELSE IF FGreater(current_max, One) THEN ADivBy("float32", rows, current_max)
    ELSE rows
ScaleArrayOn(rows, sample, numpy) == ScaleArrayBy(rows, sample, NanMax(sample), numpy)
ScaleArray(rows, ndim, numpy) ==
    ScaleArrayOn(rows, IF ndim > 1 THEN Sample(rows) ELSE Head(rows), numpy)

\* The array normalize_radiometric clips at its end, from the float32
\* array of line 82: normalized (3-D) or arr (2-D, 1-D).
ScaledFrom(arr32, numpy) ==
    IF arr32.ndim = 0 THEN NoneImage
    ELSE IF arr32.ndim = 3
         THEN Image3(Tuple([i \in 1..Len(arr32.data) |->
                         ScaleBand(arr32.data[i], numpy)]))
    ELSE FromRows(arr32.ndim, ScaleArray(Rows(arr32), arr32.ndim, numpy))
Scaled(image, numpy) == ScaledFrom(AsFloat32(image), numpy)

\* np.clip(array, 0, 1) of a 3-D, 2-D or 1-D array; None stays None.
ClipImage(image) ==
    IF image.ndim = 0 THEN NoneImage
    ELSE IF image.ndim = 3
         THEN Image3(Tuple([i \in 1..Len(image.data) |->
                         AClip(image.data[i], Zero, One)]))
    ELSE FromRows(image.ndim, AClip(Rows(image), Zero, One))

\* normalize_radiometric(image) under the given numpy.
normalize_radiometric(image, numpy) == ClipImage(Scaled(image, numpy))

---------------------------------------------------------------------------
(* Normalizacion.py: align_to_reference, normalize_all, process_session    *)

\* What rasterio's in-memory warp does with a target that is not None: it
\* raises (ok = FALSE) or yields the resampled array (ok = TRUE, data).
WarpRaises == [ok |-> FALSE, data |-> NoneImage]
WarpYields(array) == [ok |-> TRUE, data |-> array]

\* align_to_reference(target_array, ...): None for a None target and for a
\* warp that raised (the exception is caught), the resampled array otherwise.
align_to_reference(target_array, warp) ==
    IF target_array = NoneImage THEN NoneImage
    ELSE IF ~warp.ok THEN NoneImage
    ELSE warp.data

\* normalize_all(aligned_data): the dictionary and the arguments of its
\* calls of normalize_radiometric, in order.
normalize_all(aligned_data, numpy) ==
    [ret |-> [ms |-> normalize_radiometric(aligned_data.ms_data, numpy),
              rgb |-> IF aligned_data.rgb_aligned # NoneImage
                      THEN normalize_radiometric(aligned_data.rgb_aligned, numpy)
                      ELSE NoneImage],
     calls |-> IF aligned_data.rgb_aligned # NoneImage
               THEN <<aligned_data.ms_data, aligned_data.rgb_aligned>>
               ELSE <<aligned_data.ms_data>>]

\* process_session without the check of the aligned array: the MS array is
\* normalised even when the alignment failed.
Unchecked(ms_data, rgb_aligned, numpy) ==
    [rgb_aligned |-> rgb_aligned]
    @@ normalize_all([ms_data |-> ms_data, rgb_aligned |-> rgb_aligned], numpy)
process_session_unchecked(ms_data, rgb_data, warp, numpy) ==
    Unchecked(ms_data, align_to_reference(rgb_data, warp), numpy)

\* process_session(ms_data, ms_profile, rgb_data, rgb_profile): the aligned
\* RGB array (rgb_aligned), the returned dictionary (ret) and the arguments
\* of the calls of normalize_radiometric, in order (calls).
Checked(ms_data, rgb_aligned, numpy) ==
    [rgb_aligned |-> rgb_aligned]
    @@ IF rgb_aligned = NoneImage
       THEN [ret |-> [ms |-> NoneImage, rgb |-> NoneImage], calls |-> <<>>]
       ELSE normalize_all([ms_data |-> ms_data, rgb_aligned |-> rgb_aligned], numpy)
process_session(ms_data, rgb_data, warp, numpy) ==
    Checked(ms_data, align_to_reference(rgb_data, warp), numpy)

---------------------------------------------------------------------------
(* State                                                                   *)

VARIABLES
    pc,             \* where the call under study stands
    dtype,          \* the dtype of the arrays given to _safe_divide or to
                    \* VegetationIndices
    numpy,          \* the release of numpy that is installed
    numerator,      \* _safe_divide: its numerator argument
    denominator,    \* _safe_divide: its denominator argument
    result,         \* _safe_divide: the array it returned
    ms_norm_array,  \* VegetationIndices(...): its first argument
    rgb_norm_array, \* VegetationIndices(...): its second argument, or None
    self,           \* the VegetationIndices object
    called,         \* the method last called on it
    ret,            \* what that call yielded
    image,          \* normalize_radiometric: its argument
    arr,            \* normalize_radiometric: image.astype(np.float32)
    normalized,     \* normalize_radiometric: the array it clips at its end
    out,            \* normalize_radiometric: the array it returned
    ms_data,        \* process_session: the MS array
    rgb_data,       \* process_session: the RGB array
    session         \* process_session: its aligned array, the dictionary it
                    \* returned and its calls of normalize_radiometric

idxVars == <<ms_norm_array, rgb_norm_array, self, called, ret>>
divVars == <<numerator, denominator, result>>
normVars == <<image, arr, normalized, out>>
sessionVars == <<ms_data, rgb_data, session>>

vars == <<pc, dtype, numpy, divVars, idxVars, normVars, sessionVars>>

\* The value of a variable the specification at hand does not use.
Unused == "unused"

\* The variables of the other specifications, which this one leaves alone.
IdleIdx ==
    /\ ms_norm_array = Unused /\ rgb_norm_array = Unused
    /\ self = Unused /\ called = Unused /\ ret = Unused
IdleDiv == numerator = Unused /\ denominator = Unused /\ result = Unused
IdleNorm ==
    image = Unused /\ arr = Unused /\ normalized = Unused /\ out = Unused
IdleSession ==
    /\ ms_data = Unused /\ rgb_data = Unused /\ session = Unused

---------------------------------------------------------------------------
(* _safe_divide on arbitrary arrays                                        *)

DTypes == {"float32", "float64"}

\* The values of S as an array of the given dtype holds them.
Holds(t, S) == {Float(t, v) : v \in S}

\* Numerator pixels: zero, ordinary values, a value float32 rounds (0.4), a
\* huge and a tiny float32, a huge double, the infinities, nan.
DivNums == {Zero, One, FromInt(-2), Mk(2, 5, 0), Mk(1, 1, 30), Mk(1, 1, -30),
            Mk(1, 1, 300), PInf, NInf, NaN}

\* Denominator pixels: zero, below epsilon (both signs), epsilon itself,
\* just above it, ordinary values, a huge float32, nan.
DivDens == {Zero, Mk(5, 1, -11), Mk(-5, 1, -11), Epsilon, Mk(-1, 1, -10),
            Mk(1, 1, -9), Mk(4, 5, 0), Mk(-1, 2, 0), Mk(1, 1, 30), NaN}

\* The second pixel of the arrays: an ordinary numerator and one that
\* float32 rounds; a zero denominator, epsilon itself, an ordinary one.
SecondNums == {One, Mk(2, 5, 0)}
SecondDens == {Zero, Epsilon, Mk(4, 5, 0)}

\* A Height x Width array whose pixels (1,1) and (1,2) are p and q and whose
\* other pixels are bg.
Probe2(p, q, bg) ==
    [r \in 1..Height |-> [c \in 1..Width |->
        IF r = 1 /\ c = 1 THEN p ELSE IF r = 1 /\ c = 2 THEN q ELSE bg]]

InitDiv ==
    /\ pc = "args"
    /\ dtype \in DTypes
    /\ numpy = Unused
    /\ \E n1 \in Holds(dtype, DivNums), n2 \in Holds(dtype, SecondNums) :
          numerator = Probe2(n1, n2, One)
    /\ \E d1 \in Holds(dtype, DivDens), d2 \in Holds(dtype, SecondDens) :
          denominator = Probe2(d1, d2, Zero)
    /\ result = Unused
    /\ IdleIdx /\ IdleNorm /\ IdleSession

CallSafeDivide ==
    /\ pc = "args"
    /\ result' = SafeDivide(numerator, denominator, dtype)
    /\ pc' = "divided"
    /\ UNCHANGED <<dtype, numpy, numerator, denominator, idxVars, normVars,
                   sessionVars>>

NextDiv == CallSafeDivide

SpecDiv == InitDiv /\ [][NextDiv]_vars

---------------------------------------------------------------------------
(* The index calculator on normalised arrays                               *)

\* The reflectances 0.2 and 0.6 of the probe pixel, as Python floats.
RedProbe == Mk(2, 10, 0)
NirProbe == Mk(6, 10, 0)

\* Normalised reflectances of the probe pixel in RED, in NIR, and in GREEN
\* and RED_EDGE.
RedVals == {Zero, RedProbe, One}
NirVals == {Zero, NirProbe, One}
SideVals == {Zero, NirProbe}

\* Values of the fifth (ALPHA) band.
AlphaVals == {Zero, NaN}

\* Normalised values of the RGB probe pixel in GREEN and BLUE.
RgbVals == {<<Zero, Half>>, <<Half, Zero>>}

\* A Height x Width array whose pixel (1,1) is p and whose others are bg.
Probe1(p, bg) ==
    [r \in 1..Height |-> [c \in 1..Width |-> IF r = 1 /\ c = 1 THEN p ELSE bg]]

\* Multispectral arrays of four and of five bands (the fifth an ALPHA band,
\* opaque at the probe); the pixels off the probe are black (every band 0).
MsArrays4 ==
    {<<Probe1(r, Zero), Probe1(g, Zero), Probe1(n, Zero), Probe1(e, Zero)>> :
        r \in RedVals, g \in SideVals, n \in NirVals, e \in SideVals}
MsArrays5 == {Append(m, Probe1(One, Zero)) : m \in MsArrays4}

\* RGB arrays: the probe pixel is mid-grey in RED, black elsewhere.
RgbArrays ==
    {<<Probe1(Half, Zero), Probe1(gb[1], Zero), Probe1(gb[2], Zero)>> :
        gb \in RgbVals}

InitIdx ==
    /\ pc = "constructed"
    /\ dtype \in DTypes
    /\ numpy = Unused
    /\ ms_norm_array \in {AsTypeBands(dtype, m) : m \in MsArrays4 \cup MsArrays5}
    /\ rgb_norm_array \in RgbArrays \cup {None}
    /\ self = VegetationIndices(ms_norm_array, rgb_norm_array, dtype)
    /\ called = "__init__"
    /\ ret = RetNone
    /\ IdleDiv /\ IdleNorm /\ IdleSession

Returned(name, r) ==
    /\ pc = "constructed"
    /\ called' = name
    /\ ret' = r
    /\ pc' = "returned"
    /\ UNCHANGED <<dtype, numpy, ms_norm_array, rgb_norm_array, self, divVars,
                   normVars, sessionVars>>

CallNdvi == Returned("calculate_ndvi", calculate_ndvi(self))
CallNdre == Returned("calculate_ndre", calculate_ndre(self))
CallSavi == Returned("calculate_savi", calculate_savi(self, SaviL))
CallGndvi == Returned("calculate_gndvi", calculate_gndvi(self))
CallVari == Returned("calculate_vari", calculate_vari(self))
CallExg == Returned("calculate_exg", calculate_exg(self))
CallEvi == Returned("calculate_evi_hybrid", calculate_evi_hybrid(self))
CallMain == Returned("calculate_main_indices", calculate_main_indices(self))

NextIdx ==
    \/ CallNdvi \/ CallNdre \/ CallSavi \/ CallGndvi
    \/ CallVari \/ CallExg \/ CallEvi \/ CallMain

SpecIdx == InitIdx /\ [][NextIdx]_vars

---------------------------------------------------------------------------
(* normalize_radiometric on raw and on normalised arrays                   *)

\* Rows and columns of the arrays given to normalize_radiometric, and the
\* largest number of bands of a 3-D one.
NormHeight == 1
NormWidth == 11
MaxBands == 2

\* The arrays given to normalize_radiometric come from read_tif_array and
\* align_to_reference, which read every raster (8-bit, 16-bit or float32)
\* with out_dtype float32: their pixels are float32 values.

\* In the first sampled column: nan, 0, values in (0, 1], the float32
\* nearest to the intermediate 1.2, the threshold 1.5, the float32 nearest
\* to 1.5000001 (just above the threshold), 2.
FirstVals ==
    Holds("float32", {NaN, Zero, Half, One, Mk(12, 10, 0), OnePointFive,
                      Mk(15000001, 1, -7), Two})

\* In the column that is not sampled: nan, a nodata-like negative, the
\* float32 nearest to 0.3, 1, the float32 nearest to the intermediate 1.4,
\* a subnormal float32 (1e-45) and a huge one (1e38).
UnsampledVals ==
    Holds("float32", {NaN, FromInt(-2000), Mk(3, 10, 0), One, Mk(14, 10, 0),
                      Mk(1, 1, -45), Mk(1, 1, 38)})

\* In the last sampled column: nan, a nodata-like negative, 0, 0.5, 1, 2.
LastVals == {NaN, FromInt(-2000), Zero, Half, One, Two}

\* A NormHeight x NormWidth band: a and c are sampled by [::10, ::10]
\* (columns 0 and 10), b is not (column 1); every other pixel is fill.
NormBand(a, b, c, fill) ==
    [r \in 1..NormHeight |-> [k \in 1..NormWidth |->
        IF r = 1 /\ k = 1 THEN a
        ELSE IF r = 1 /\ k = 2 THEN b
        ELSE IF r = 1 /\ k = 1 + Stride THEN c
        ELSE fill]]

ProbeBands ==
    {NormBand(a, b, c, Zero) : a \in FirstVals, b \in UnsampledVals, c \in LastVals}

\* A constant band: an opaque 8-bit ALPHA.
AlphaBand == NormBand(FromInt(255), FromInt(255), FromInt(255), FromInt(255))

\* 3-D arrays of 1..MaxBands bands: one probe band, followed by ALPHA bands.
Images3D ==
    {Image3([i \in 1..n |-> IF i = 1 THEN b ELSE AlphaBand]) :
        b \in ProbeBands, n \in 1..MaxBands}

Images2D == {Image2(b) : b \in ProbeBands}

\* 1-D arrays of NormWidth pixels, all of them sampled.
Images1D ==
    {Image1(Head(NormBand(a, b, One, Zero))) : a \in FirstVals, b \in UnsampledVals}

InitNorm ==
    /\ pc = "image"
    /\ dtype = Unused
    /\ numpy \in NumpyVersions
    /\ image \in Images3D \cup Images2D \cup Images1D
    /\ arr = Unused /\ normalized = Unused /\ out = Unused
    /\ IdleDiv /\ IdleIdx /\ IdleSession

\* normalize_radiometric(image) on the input array.
Normalize ==
    /\ pc = "image"
    /\ arr' = AsFloat32(image)
    /\ normalized' = Scaled(image, numpy)
    /\ out' = ClipImage(normalized')
    /\ pc' = "normalized"
    /\ UNCHANGED <<dtype, numpy, image, divVars, idxVars, sessionVars>>

\* normalize_radiometric applied to the array it returned.
NormalizeAgain ==
    /\ pc = "normalized"
    /\ image' = out
    /\ arr' = AsFloat32(out)
    /\ normalized' = Scaled(out, numpy)
    /\ out' = ClipImage(normalized')
    /\ pc' = "renormalized"
    /\ UNCHANGED <<dtype, numpy, divVars, idxVars, sessionVars>>

NextNorm == Normalize \/ NormalizeAgain

SpecNorm == InitNorm /\ [][NextNorm]_vars

---------------------------------------------------------------------------
(* normalize_radiometric on arrays with several hundred sampled pixels     *)

\* Columns of the one-row arrays: [::10] keeps 502 of 5011, so that the
\* 99.9th percentile lies at position 500.499 of the sorted sample,
\* nearer to the second largest pixel than to the largest.
WideWidth == 5011

\* The last column that [::10] keeps.
LastSampled == 1 + Stride * ((WideWidth - 1) \div Stride)

\* A one-row array: fill everywhere, but b in the unsampled column 2 and c
\* in the last sampled column.
WideBand(b, c, fill) ==
    << [k \in 1..WideWidth |->
          IF k = 2 THEN b ELSE IF k = LastSampled THEN c ELSE fill] >>

\* The last sampled pixel: 0, 255, nan, the float32 nearest to 3e38, inf.
WideLastVals == Holds("float32", {Zero, FromInt(255), NaN, Mk(3, 1, 38), PInf})

WideBands ==
    {WideBand(b, c, fill) :
        b \in {FromInt(255), NaN},
        c \in WideLastVals,
        fill \in {Half, Two, FromInt(200)}}

InitWide ==
    /\ pc = "image"
    /\ dtype = Unused
    /\ numpy \in NumpyVersions
    /\ image \in {Image2(b) : b \in WideBands}
                 \cup {Image3(<<b>>) : b \in WideBands}
    /\ arr = Unused /\ normalized = Unused /\ out = Unused
    /\ IdleDiv /\ IdleIdx /\ IdleSession

NextWide == Normalize

SpecWide == InitWide /\ [][NextWide]_vars

---------------------------------------------------------------------------
(* process_session on one MS/RGB pair                                      *)

SessionVals == {Zero, Half, FromInt(255)}

SessionArrays ==
    {Image3(<<NormBand(a, a, c, a)>>) : a \in SessionVals, c \in SessionVals}

InitSession ==
    /\ pc = "session"
    /\ dtype = Unused
    /\ numpy \in NumpyVersions
    /\ ms_data \in SessionArrays \cup {NoneImage}
    /\ rgb_data \in SessionArrays \cup {NoneImage}
    /\ session = Unused
    /\ IdleDiv /\ IdleIdx /\ IdleNorm

\* process_session(ms_data, ms_profile, rgb_data, rgb_profile), whatever the
\* warp does.
ProcessSession ==
    /\ pc = "session"
    /\ \E warp \in {WarpRaises} \cup {WarpYields(a) : a \in SessionArrays} :
          session' = process_session(ms_data, rgb_data, warp, numpy)
    /\ pc' = "done"
    /\ UNCHANGED <<dtype, numpy, ms_data, rgb_data, divVars, idxVars, normVars>>

NextSession == ProcessSession

SpecSession == InitSession /\ [][NextSession]_vars

---------------------------------------------------------------------------
(* Properties of _safe_divide                                              *)

Pixels == (1..Height) \X (1..Width)

At(A, p) == A[p[1]][p[2]]

\* 2^k.
Pow2(k) == [kind |-> "fin", sign |-> 1, m |-> <<1>>, e |-> k]

\* Half the distance between q and the next value of the format t away
\* from zero, for a finite q.
HalfUlp(t, q) ==
    LET F == Format(t)
    IN  IF Sgn(q) = 0 THEN Pow2(F.quantum - 1)
        ELSE Pow2(Max(q.e + NBitLen(q.m) - F.digits, F.quantum) - 1)

\* The magnitude from which on a real rounds to an infinity of the format
\* t: the midpoint of its largest finite value and the next power of two.
Huge(t) ==
    LET F == Format(t) IN XSub(Pow2(F.top + 1), Pow2(F.top - F.digits))

\* q is the IEEE quotient n / d in the dtype of the arrays, for a
\* denominator d that is not zero: nan when an operand is nan, the signed
\* infinity of an infinite numerator or of a quotient beyond the range (an
\* overflow), and otherwise a value of the dtype within half a unit in its
\* last place of n / d, that is |q d - n| <= half a unit times |d|.
IsQuotient(q, n, d) ==
    IF IsNaN(n) \/ IsNaN(d) THEN IsNaN(q)
    ELSE IF IsInf(n) THEN IsInf(q) /\ Sgn(q) = Sgn(n) * Sgn(d)
    ELSE IF IsInf(q)
         THEN /\ Sgn(q) = Sgn(n) * Sgn(d)
              /\ FLeq(XMul(Huge(dtype), FAbs(d)), FAbs(n))
    ELSE /\ IsFin(q)
         /\ Float(dtype, q) = q
         /\ FLeq(FAbs(XSub(XMul(q, d), n)), XMul(HalfUlp(dtype, q), FAbs(d)))

\* d is zero or smaller in magnitude than 1e-10.
Degenerate(d) ==
    ~IsNaN(d) /\ (Sgn(d) = 0 \/ (IsFin(d) /\ CmpPos(FAbs(d), Epsilon) < 0))

SentinelAndQuotient ==
    \A p \in Pixels :
        IF Degenerate(At(denominator, p))
        THEN IsNaN(At(result, p))
        ELSE IsQuotient(At(result, p), At(numerator, p), At(denominator, p))

\* C1 as stated: _safe_divide returns nan at every pixel whose denominator
\* is zero or below 1e-10 in magnitude, the quotient n/d at every other
\* pixel, and no pixel of the result is infinite.
C1_NoPixelInfinite ==
    pc = "divided" =>
        /\ SentinelAndQuotient
        /\ \A p \in Pixels : ~IsInf(At(result, p))

\* C1 as amended: _safe_divide returns nan at every pixel whose denominator
\* is zero or below 1e-10 in magnitude and the IEEE quotient n/d at every
\* other pixel; no pixel whose numerator is finite with |n| <= 2 (a
\* difference of normalised reflectances) is infinite.
C1_SentinelOrQuotient ==
    pc = "divided" =>
        /\ SentinelAndQuotient
        /\ \A p \in Pixels :
              (IsFin(At(numerator, p)) /\ FLeq(FAbs(At(numerator, p)), Two))
                  => ~IsInf(At(result, p))

TenToTheTenth == Mk(1, 1, 10)
HalfEpsilon == Mk(5, 1, -11)

\* A float64 call that masked a tiny nonzero denominator at one pixel,
\* divided by a denominator of exactly 1e-10 at the other, and got the
\* finite quotient 1e10.
C1_Witness ==
    /\ pc = "divided" /\ dtype = "float64"
    /\ At(denominator, <<1, 1>>) = HalfEpsilon
    /\ IsNaN(At(result, <<1, 1>>))
    /\ At(denominator, <<1, 2>>) = Epsilon
    /\ At(numerator, <<1, 2>>) = One
    /\ At(result, <<1, 2>>) = TenToTheTenth

---------------------------------------------------------------------------
(* Properties of the index calculator                                      *)

InUnitRange(x) == IsFin(x) /\ FLeq(Zero, x) /\ FLeq(x, One)

MsInUnitRange ==
    \A b \in 1..Len(ms_norm_array) : \A p \in Pixels :
        InUnitRange(At(ms_norm_array[b], p))

\* The rounding error allowed to an index of magnitude up to a few units
\* that was computed in float32 or float64: 1e-6.
Tolerance == Mk(1, 1, -6)

\* x is y up to the rounding error.
Near(x, y) == IsFin(x) /\ FLeq(FAbs(XSub(x, y)), Tolerance)

\* 0.2 and 0.6 as an array of the object's dtype holds them.
RedHeld == Float(dtype, RedProbe)
NirHeld == Float(dtype, NirProbe)

\* C2: on an MS array with every band value in [0,1], every pixel of NDVI,
\* NDRE and GNDVI that is not nan lies in [-1,1]; a pixel with RED = 0.2 and
\* NIR = 0.6 has NDVI 0.5 (up to the rounding error of the dtype), and a
\* pixel with RED = NIR = 0 has NDVI nan.
C2_RatioIndicesInRange ==
    (pc = "returned" /\ MsInUnitRange) =>
        /\ called \in {"calculate_ndvi", "calculate_ndre", "calculate_gndvi"} =>
              /\ ret.kind = "value"
              /\ \A p \in Pixels :
                    \/ IsNaN(At(ret.val, p))
                    \/ /\ IsFin(At(ret.val, p))
                       /\ FLeq(MinusOne, At(ret.val, p))
                       /\ FLeq(At(ret.val, p), One)
        /\ called = "calculate_ndvi" =>
              \A p \in Pixels :
                 /\ (At(self.red, p) = RedHeld /\ At(self.nir, p) = NirHeld)
                       => Near(At(ret.val, p), Half)
                 /\ (At(self.red, p) = Zero /\ At(self.nir, p) = Zero)
                       => IsNaN(At(ret.val, p))

\* NDVI of an array with RED = 0.2 and NIR = 0.6 at one pixel and
\* RED = NIR = 0 at another.
C2_Witness ==
    /\ pc = "returned" /\ called = "calculate_ndvi" /\ MsInUnitRange
    /\ At(self.red, <<1, 1>>) = RedHeld /\ At(self.nir, <<1, 1>>) = NirHeld
    /\ Near(At(ret.val, <<1, 1>>), Half)
    /\ At(self.red, <<1, 2>>) = Zero /\ At(self.nir, <<1, 2>>) = Zero
    /\ IsNaN(At(ret.val, <<1, 2>>))

\* The EVI array a call returned: calculate_evi_hybrid's value, or the entry
\* 'evi' of calculate_main_indices' dictionary.
EviReturned ==
    /\ pc = "returned" /\ rgb_norm_array # None /\ ret.kind = "value"
    /\ called \in {"calculate_evi_hybrid", "calculate_main_indices"}
    /\ called = "calculate_main_indices" => ret.val["evi"].kind = "value"

EviArray ==
    IF called = "calculate_main_indices" THEN ret.val["evi"].val ELSE ret.val

\* The real number NIR + 6 RED - 7.5 BLUE + 1 at pixel p.
EviBlueDenominator(p) ==
    XAdd(XSub(XAdd(At(self.nir, p), XMul(Six, At(self.red, p))),
              XMul(SevenPointFive, At(self.rgb_blue, p))), One)

\* The real number NIR + 2.4 RED + 1 at pixel p.
EviTwoBandDenominator(p) ==
    XAdd(XAdd(At(self.nir, p), XMul(TwoPointFour, At(self.red, p))), One)

\* The real number 2.5 (NIR - RED) at pixel p.
EviNumerator(p) == XMul(TwoPointFive, XSub(At(self.nir, p), At(self.red, p)))

\* x is the quotient n / d of two real numbers up to the rounding error:
\* |x d - n| <= 1e-6 |d|.
NearQuotient(x, n, d) ==
    IsFin(x) /\ FLeq(FAbs(XSub(XMul(x, d), n)), XMul(Tolerance, FAbs(d)))

\* C5 as stated: EVI is 2.5 (NIR - RED) / (NIR + 6 RED - 7.5 BLUE + 1), up
\* to the rounding error, at every pixel where that denominator is not
\* degenerate.
C5_EviUsesBlue ==
    (EviReturned /\ MsInUnitRange) =>
        \A p \in Pixels :
            ~Degenerate(EviBlueDenominator(p)) =>
                NearQuotient(At(EviArray, p), EviNumerator(p), EviBlueDenominator(p))

\* The same calculator with another BLUE band.
WithBlue(blue) ==
    VegetationIndices(ms_norm_array,
                      [rgb_norm_array EXCEPT ![B_RGB_BLUE + 1] = blue], dtype)

BlueBands == {Probe1(Zero, One), Probe1(One, Zero)}

\* C5 as amended: on reflectances in [0,1], EVI is
\* 2.5 (NIR - RED) / (NIR + 2.4 RED + 1), up to the rounding error, at
\* every pixel where that denominator is not degenerate, the same whatever
\* the BLUE band holds.
C5_EviTwoBand ==
    (EviReturned /\ MsInUnitRange) =>
        /\ \A p \in Pixels :
              ~Degenerate(EviTwoBandDenominator(p)) =>
                  NearQuotient(At(EviArray, p), EviNumerator(p),
                               EviTwoBandDenominator(p))
        /\ \A blue \in BlueBands :
              calculate_evi_hybrid(WithBlue(blue)).val = EviArray

TwentyFiveOverFiftyTwo == Mk(25, 52, 0)

\* An EVI computed with RGB supplied, at a pixel with RED = 0.2, NIR = 0.6
\* and BLUE = 0.5: 2.5 * 0.4 / 2.08 = 25/52.
C5_Witness ==
    /\ EviReturned /\ called = "calculate_evi_hybrid" /\ MsInUnitRange
    /\ At(self.red, <<1, 1>>) = RedHeld /\ At(self.nir, <<1, 1>>) = NirHeld
    /\ At(self.rgb_blue, <<1, 1>>) = Half
    /\ Near(At(EviArray, <<1, 1>>), TwentyFiveOverFiftyTwo)

\* C6: without an RGB array, calculate_exg, calculate_evi_hybrid and
\* calculate_vari return None and do not raise.
C6_NoRgbReturnsNone ==
    (/\ pc = "returned" /\ rgb_norm_array = None
     /\ called \in {"calculate_exg", "calculate_evi_hybrid", "calculate_vari"})
        => ret.kind = "None"

\* The 5-band input with its fifth band replaced.
WithAlpha(alpha) == [ms_norm_array EXCEPT ![5] = alpha]

AlphaBands == {Probe1(v, Zero) : v \in AlphaVals}

\* C10: on a 5-band MS array RED, GREEN, NIR, RED_EDGE are bands 0..3, and
\* every index of calculate_main_indices is the same for any two arrays
\* that agree on bands 0..3 and differ in band 4.
C10_FifthBandIgnored ==
    (Len(ms_norm_array) = 5 /\ pc = "returned") =>
        /\ self.red = ms_norm_array[1] /\ self.green = ms_norm_array[2]
        /\ self.nir = ms_norm_array[3] /\ self.red_edge = ms_norm_array[4]
        /\ called = "calculate_main_indices" =>
              \A alpha \in AlphaBands :
                  calculate_main_indices(
                      VegetationIndices(WithAlpha(alpha), rgb_norm_array, dtype)) = ret

\* The indices of a 5-band array whose fifth band differs from its fourth at
\* the probe pixel, with RED = 0.2 and NIR = 0.6 there.
C10_Witness ==
    /\ pc = "returned" /\ called = "calculate_main_indices"
    /\ Len(ms_norm_array) = 5
    /\ At(ms_norm_array[5], <<1, 1>>) # At(ms_norm_array[4], <<1, 1>>)
    /\ At(ms_norm_array[1], <<1, 1>>) = RedHeld
    /\ At(ms_norm_array[3], <<1, 1>>) = NirHeld
    /\ ret.kind = "value"
    /\ Near(At(ret.val["ndvi"].val, <<1, 1>>), Half)

---------------------------------------------------------------------------
(* Properties of normalize_radiometric                                     *)

\* The 2-D arrays of an image: its bands, the one array of a 2-D image, or
\* the one row of a 1-D image.
Planes(im) ==
    IF im.ndim = 3 THEN im.data
    ELSE IF im.ndim = 2 THEN <<im.data>>
    ELSE << <<im.data>> >>

\* The positions <<plane, row, column>> of an image.
Positions(im) ==
    (1..Len(Planes(im))) \X (1..Len(Planes(im)[1])) \X (1..Len(Planes(im)[1][1]))

Pixel(im, q) == Planes(im)[q[1]][q[2]][q[3]]

Normalized == pc \in {"normalized", "renormalized"}

\* C3: every value normalize_radiometric returns for a 2-D or 3-D array is
\* in [0,1] or nan, and is nan only where the input pixel at the same
\* position was nan.
C3_OutputInUnitRangeOrNaN ==
    (Normalized /\ image.ndim \in {2, 3}) =>
        \A q \in Positions(image) :
            /\ IsNaN(Pixel(out, q)) \/ InUnitRange(Pixel(out, q))
            /\ IsNaN(Pixel(out, q)) => IsNaN(Pixel(image, q))

AllInUnitRange(im) == \A q \in Positions(im) : InUnitRange(Pixel(im, q))

NaNFree(im) == \A q \in Positions(im) : ~IsNaN(Pixel(im, q))

\* C4: normalize_radiometric returns a 2-D or 3-D array whose values all
\* lie in [0,1] unchanged, pixel for pixel, and applied to its own nan-free
\* output it returns that output.
C4_ReturnsInputUnchanged ==
    image.ndim \in {2, 3} =>
        /\ (Normalized /\ AllInUnitRange(image)) => out = image
        /\ (pc = "renormalized" /\ NaNFree(image)) => out = image

\* The second normalisation of a 3-D array whose first normalisation scaled
\* a pixel to a value strictly between 0 and 1.
C4_Witness ==
    /\ pc = "renormalized" /\ image.ndim = 3 /\ NaNFree(image)
    /\ Pixel(image, <<1, 1, 1>>) = One
    /\ FLess(Zero, Pixel(image, <<1, 1, 2>>))
    /\ FLess(Pixel(image, <<1, 1, 2>>), One)
    /\ out = image

\* The float32 bands of the input, as the loop reads them.
Bands32 == arr.data

\* The largest pixel of a band that is not nan.
TrueMax(band) == NanMax(Flatten(band))

Intermediate(band) ==
    /\ FGreater(NanMax(Sample(band)), One)
    /\ FLeq(NanMax(Sample(band)), OnePointFive)

\* C7: in the 3-D branch, a band whose sampled maximum is in (1, 1.5] is
\* divided by the largest pixel of the whole band: before the final clip no
\* pixel of it exceeds 1 and its largest pixel is exactly 1.
C7_IntermediateByTrueMax ==
    (pc = "normalized" /\ image.ndim = 3) =>
        \A i \in 1..Len(Bands32) :
            Intermediate(Bands32[i]) =>
                \A r \in 1..Len(Bands32[i]), k \in 1..Len(Bands32[i][1]) :
                    /\ ~FGreater(normalized.data[i][r][k], One)
                    /\ Bands32[i][r][k] = TrueMax(Bands32[i])
                          => normalized.data[i][r][k] = One

\* The estimated scaling maximum of a band is not positive: its sampled
\* maximum is, or that exceeds 1.5 and the 99.9th percentile is.
NonPositiveMax(band) ==
    \/ FLeq(NanMax(Sample(band)), Zero)
    \/ /\ FGreater(NanMax(Sample(band)), OnePointFive)
       /\ FLeq(NanPercentile(Sample(band), numpy), Zero)

\* C8: a band (3-D) or array (2-D) whose estimated scaling maximum is not
\* positive is returned as its own (float32) values clipped to [0,1].
C8_NonPositiveMaxLeftUnscaled ==
    (pc = "normalized" /\ image.ndim \in {2, 3}) =>
        \A i \in 1..Len(Planes(image)) :
            NonPositiveMax(Planes(arr)[i]) =>
                Planes(out)[i] = AClip(Planes(arr)[i], Zero, One)

---------------------------------------------------------------------------
(* Properties of process_session                                           *)

NoneDict == [ms |-> NoneImage, rgb |-> NoneImage]

\* C9: process_session returns {'ms': None, 'rgb': None}, having called
\* normalize_radiometric on nothing, whenever the alignment yields None
\* (as it does for rgb_data None and for a warp that raised); otherwise its
\* dictionary holds under 'ms' and 'rgb' the normalised MS array and the
\* normalised aligned RGB array.
C9_SessionFailsOrNormalizes ==
    pc = "done" =>
        /\ rgb_data = NoneImage => session.rgb_aligned = NoneImage
        /\ session.rgb_aligned = NoneImage =>
              session.ret = NoneDict /\ session.calls = <<>>
        /\ session.rgb_aligned # NoneImage =>
              /\ DOMAIN session.ret = {"ms", "rgb"}
              /\ session.ret.ms = normalize_radiometric(ms_data, numpy)
              /\ session.ret.rgb = normalize_radiometric(session.rgb_aligned, numpy)
              /\ session.calls = <<ms_data, session.rgb_aligned>>

\* A session whose MS and RGB arrays were both given and whose warp raised.
C9_Witness ==
    /\ pc = "done"
    /\ ms_data # NoneImage /\ rgb_data # NoneImage
    /\ session.rgb_aligned = NoneImage
    /\ session.ret = NoneDict
    /\ session.calls = <<>>

---------------------------------------------------------------------------
(* The keys of calculate_main_indices                                      *)

MainReturned == pc = "returned" /\ called = "calculate_main_indices"

\* C11: calculate_main_indices returns a mapping (it does not raise) whose
\* keys are ndvi, ndre, savi and gndvi, together with vari, exg and evi
\* exactly when an RGB array was given to the constructor, and no other key;
\* every entry is an array.
C11_MainIndicesKeys ==
    MainReturned =>
        /\ ret.kind = "value"
        /\ {"ndvi", "ndre", "savi", "gndvi"} \subseteq DOMAIN ret.val
        /\ \A k \in {"vari", "exg", "evi"} :
              k \in DOMAIN ret.val <=> rgb_norm_array # None
        /\ DOMAIN ret.val \subseteq
              {"ndvi", "ndre", "savi", "gndvi", "vari", "exg", "evi"}
        /\ \A k \in DOMAIN ret.val : ret.val[k].kind = "value"

\* The dictionary of an instance built with an RGB array has seven keys.
C11_Witness ==
    /\ MainReturned /\ rgb_norm_array # None /\ ret.kind = "value"
    /\ Cardinality(DOMAIN ret.val) = 7
    /\ "exg" \in DOMAIN ret.val

\* The dictionary of an instance built without one has the four MS keys.
C11_WitnessNoRgb ==
    /\ MainReturned /\ rgb_norm_array = None /\ ret.kind = "value"
    /\ Cardinality(DOMAIN ret.val) = 4

===========================================================================
